---------------------------- MODULE Spec2Model ----------------------------
(***************************************************************************)
(* r9cc: the recursive-descent parser (src/src/parse.rs) and the x86 code  *)
(* generator (src/src/codegen.rs) as state machines.                       *)
(*                                                                         *)
(*   GenSpec   gen_x86 / gen_label, one or two calling threads             *)
(*   Spec      parse(tokens), one step per statement group of a function   *)
(*   FairSpec  Spec with weak fairness on the parser's steps               *)
(***************************************************************************)
EXTENDS Integers, Sequences, FiniteSets, TLC

VARIABLES
    \* ---- codegen.rs ----
    n,        \* the process-wide label counter (lazy_static Mutex<usize>)
    gpc,      \* per thread: position inside gen_x86
    girv,     \* per thread: the IR vector passed to gen_x86
    gidx,     \* per thread: 1-based index of the instruction the for loop is at
    gret,     \* per thread: the local `ret` (the label gen_label returned)
    gout,     \* per thread: the lines this invocation has printed
    gmark,    \* per thread: Len(gout) when the current instruction started
    labels,   \* every label returned by gen_label so far, in return order
    \* ---- parse.rs ----
    tokens,   \* the token vector passed to parse
    pos,      \* the cursor `pos` (0-based, as in the source)
    stack,    \* the call stack of parser functions, innermost last
    returned, \* the value the last returning function handed to its caller
    status,   \* "run", "done" (parse returned) or "abort" (a panic)
    report,   \* what the panic message names
    result,   \* the Vec<Node> parse returned, None before that
    look,     \* the token indices the last step examined
    progress  \* FALSE once a loop came back to its head without consuming

gvars == <<n, gpc, girv, gidx, gret, gout, gmark, labels>>

pvars == <<tokens, pos, stack, returned, status, report, result, look, progress>>

vars == <<n, gpc, girv, gidx, gret, gout, gmark, labels,
          tokens, pos, stack, returned, status, report, result, look,
          progress>>

(***************************************************************************)
(* Option<T>: None is the empty sequence, Some(x) is <<x>>.                *)
(***************************************************************************)
None == <<>>

Some(x) == <<x>>

IsSome(o) == Len(o) = 1

Unwrap(o) == o[1]

(***************************************************************************)
(*                             codegen.rs                                  *)
(***************************************************************************)

\* The physical register table (crate root, imported at codegen.rs:2).
REGS == <<"rdi", "rsi", "r10", "r11", "r12", "r13", "r14", "r15">>

IRType == {"Imm", "Mov", "Return", "Alloca", "Load", "Store", "Add",
           "AddImm", "Sub", "Mul", "Div", "Nop", "Kill"}

\* Opcodes whose rhs is used as an index into REGS.
RegRhs == {"Mov", "Load", "Store", "Add", "Sub", "Mul", "Div"}

\* The bounds test with the table's length taken for a valid index.
InRangeOffByOne(r) == r <= Len(REGS)

\* REGS[r] is in bounds (Rust indexes from 0 and panics out of bounds).
InRange(r) == r < Len(REGS)

\* The operand text of REGS[r]; "?" stands for a lookup that never yields text.
Reg(r) == IF r + 1 \in DOMAIN REGS THEN <<"r", REGS[r + 1]>> ELSE <<"r", "?">>

Mem(r) == IF r + 1 \in DOMAIN REGS THEN <<"m", REGS[r + 1]>> ELSE <<"m", "?">>

Lit(i) == <<"i", i>>

Phys(name) == <<"r", name>>

NoOperand == <<"-", "-">>

\* format!(".L{}", k)
Label(k) == <<".L", k>>

Line(m, a, b) == <<m, a, b>>

\* One print! of the loop body: its arguments are evaluated first (ok is
\* FALSE when an unwrap or a REGS index among them panics), then the line is
\* written.
Pr(ok, line) == [ok |-> ok, line |-> line]

RhsReg(ir) == IF IsSome(ir.rhs) THEN Unwrap(ir.rhs) ELSE 0

RhsOk(ir) == IsSome(ir.rhs) /\ InRange(Unwrap(ir.rhs))

\* Return leaving the function where it stands, with an epilogue of its own
\* instead of the jump.
ReturnInline(lhs, ret) ==
    << Pr(InRange(lhs), Line("mov", Phys("rax"), Reg(lhs))),
       Pr(TRUE, Line("pop", Phys("rbp"), NoOperand)),
       Pr(TRUE, Line("ret", NoOperand, NoOperand)) >>

\* codegen.rs:28-31
ReturnPrints(lhs, ret) ==
    << Pr(InRange(lhs), Line("mov", Phys("rax"), Reg(lhs))),
       Pr(TRUE, Line("jmp", ret, NoOperand)) >>

\* codegen.rs:26-54: the prints of one match arm, in order.
Prints(ir, lhs, ret) ==
    LET r == RhsReg(ir) IN
    CASE ir.op = "Imm" ->
           << Pr(InRange(lhs) /\ IsSome(ir.rhs), Line("mov", Reg(lhs), Lit(r))) >>
      [] ir.op = "Mov" ->
           << Pr(InRange(lhs) /\ RhsOk(ir), Line("mov", Reg(lhs), Reg(r))) >>
      [] ir.op = "Return" -> ReturnPrints(lhs, ret)
      [] ir.op = "Alloca" ->
           (IF IsSome(ir.rhs)
              THEN << Pr(TRUE, Line("sub", Phys("rsp"), Lit(r))) >>
              ELSE << >>)
           \o << Pr(InRange(lhs), Line("mov", Reg(lhs), Phys("rsp"))) >>
      [] ir.op = "Load" ->
           << Pr(InRange(lhs) /\ RhsOk(ir), Line("mov", Reg(lhs), Mem(r))) >>
      [] ir.op = "Store" ->
           << Pr(InRange(lhs) /\ RhsOk(ir), Line("mov", Mem(lhs), Reg(r))) >>
      [] ir.op = "Add" ->
           << Pr(InRange(lhs) /\ RhsOk(ir), Line("add", Reg(lhs), Reg(r))) >>
      [] ir.op = "AddImm" ->
           << Pr(InRange(lhs) /\ IsSome(ir.rhs), Line("add", Reg(lhs), Lit(r))) >>
      [] ir.op = "Sub" ->
           << Pr(InRange(lhs) /\ RhsOk(ir), Line("sub", Reg(lhs), Reg(r))) >>
      [] ir.op = "Mul" ->
           << Pr(RhsOk(ir), Line("mov", Phys("rax"), Reg(r))),
              Pr(InRange(lhs), Line("mul", Reg(lhs), NoOperand)),
              Pr(InRange(lhs), Line("mov", Reg(lhs), Phys("rax"))) >>
      [] ir.op = "Div" ->
           << Pr(InRange(lhs), Line("mov", Phys("rax"), Reg(lhs))),
              Pr(TRUE, Line("cqo", NoOperand, NoOperand)),
              Pr(RhsOk(ir), Line("div", Reg(r), NoOperand)),
              Pr(InRange(lhs), Line("mov", Reg(lhs), Phys("rax"))) >>
      [] OTHER -> << >>    \* Nop | Kill => ()

\* The prints that are written before the first one that panics.
RECURSIVE Written(_)
Written(ps) ==
    IF ps = << >> \/ ~ps[1].ok THEN << >>
    ELSE << ps[1].line >> \o Written(Tail(ps))

\* codegen.rs:24-55: one iteration of the for loop: ir.lhs.unwrap() first,
\* for every opcode, then the match arm.
Exec(ir, ret) ==
    IF ~IsSome(ir.lhs) THEN [lines |-> << >>, ok |-> FALSE]
    ELSE LET ps == Prints(ir, Unwrap(ir.lhs), ret)
         IN  [lines |-> Written(ps), ok |-> \A i \in DOMAIN ps : ps[i].ok]

PrologueLines ==
    << Line("push", Phys("rbp"), NoOperand),
       Line("mov", Phys("rbp"), Phys("rsp")) >>

EpilogueLines(ret) ==
    << Line("label", ret, NoOperand),
       Line("mov", Phys("rsp"), Phys("rbp")),
       Line("mov", Phys("rsp"), Phys("rbp")),
       Line("pop", Phys("rbp"), NoOperand),
       Line("ret", NoOperand, NoOperand) >>

(***************************************************************************)
(* gen_x86 as a process per calling thread.                                *)
(***************************************************************************)
Threads == {1, 2}

MaxIR == 2

\* A register id at the table's length: the smallest id out of range.
Big == Len(REGS)

IR(op, lhs, rhs) == [op |-> op, lhs |-> lhs, rhs |-> rhs]

\* The instructions the for loop is run on: every opcode with in-range
\* operands, and every opcode with one operand absent or out of range.
IRs ==
    { ir \in [op : IRType, lhs : {None, Some(0), Some(Big)},
              rhs : {None, Some(1), Some(Big)}] :
        \/ ir.lhs = Some(0) /\ ir.rhs = Some(1)
        \/ ir.lhs = Some(0) /\ ir.rhs = None /\ ir.op \in {"Return", "Alloca", "Nop", "Kill"}
        \/ ir.lhs # Some(0) /\ ir.rhs = Some(1)
        \/ ir.lhs = Some(0) /\ ir.rhs = Some(Big) /\ ir.op \in RegRhs
        \/ ir.lhs = Some(0) /\ ir.rhs = None /\ ir.op \in {"Imm", "Mov"} }

RECURSIVE SeqsUpTo(_, _)
SeqsUpTo(S, k) ==
    IF k = 0 THEN { << >> }
    ELSE LET shorter == SeqsUpTo(S, k - 1)
         IN  shorter \cup { Append(s, x) : s \in { q \in shorter : Len(q) = k - 1 }, x \in S }

\* gen_x86 is called by one thread on any IR of up to MaxIR instructions, or
\* by two threads at once, each on an empty IR or a single Return.
GenInit ==
    /\ n = 0
    /\ \/ /\ gpc = [t \in Threads |-> IF t = 1 THEN "idle" ELSE "none"]
          /\ girv \in { [t \in Threads |-> IF t = 1 THEN s ELSE << >>] :
                           s \in SeqsUpTo(IRs, MaxIR) }
       \/ /\ gpc = [t \in Threads |-> "idle"]
          /\ girv \in [Threads -> { << >>, << IR("Return", Some(0), None) >> }]
    /\ gidx = [t \in Threads |-> 1]
    /\ gret = [t \in Threads |-> Label(0)]
    /\ gout = [t \in Threads |-> << >>]
    /\ gmark = [t \in Threads |-> 0]
    /\ labels = << >>

\* codegen.rs:11: the counter is read under the lock; the guard is a
\* temporary of this statement and is dropped at its end.
GenLabelRead(t) ==
    /\ gpc[t] = "idle"
    /\ gret' = [gret EXCEPT ![t] = Label(n)]
    /\ gpc' = [gpc EXCEPT ![t] = "incr"]
    /\ UNCHANGED <<n, girv, gidx, gout, gmark, labels>>
    /\ UNCHANGED pvars

\* codegen.rs:12-13: the counter is locked again, incremented, and the
\* label is returned to gen_x86 (codegen.rs:18).
GenLabelIncr(t) ==
    /\ gpc[t] = "incr"
    /\ n' = n + 1
    /\ labels' = Append(labels, gret[t])
    /\ gpc' = [gpc EXCEPT ![t] = "prologue"]
    /\ UNCHANGED <<girv, gidx, gret, gout, gmark>>
    /\ UNCHANGED pvars

\* codegen.rs:20-21
Prologue(t) ==
    /\ gpc[t] = "prologue"
    /\ gout' = [gout EXCEPT ![t] = @ \o PrologueLines]
    /\ gmark' = [gmark EXCEPT ![t] = Len(gout'[t])]
    /\ gpc' = [gpc EXCEPT ![t] = "loop"]
    /\ UNCHANGED <<n, girv, gidx, gret, labels>>
    /\ UNCHANGED pvars

\* codegen.rs:23-56: one iteration of `for ir in irv`; a panic ends the
\* invocation with the lines written so far.
GenStep(t) ==
    /\ gpc[t] = "loop"
    /\ gidx[t] <= Len(girv[t])
    /\ LET e == Exec(girv[t][gidx[t]], gret[t]) IN
         /\ gout' = [gout EXCEPT ![t] = @ \o e.lines]
         /\ gmark' = [gmark EXCEPT ![t] = IF e.ok THEN Len(gout'[t]) ELSE @]
         /\ gidx' = [gidx EXCEPT ![t] = IF e.ok THEN @ + 1 ELSE @]
         /\ gpc' = [gpc EXCEPT ![t] = IF e.ok THEN "loop" ELSE "panic"]
    /\ UNCHANGED <<n, girv, gret, labels>>
    /\ UNCHANGED pvars

\* codegen.rs:58-62
Epilogue(t) ==
    /\ gpc[t] = "loop"
    /\ gidx[t] > Len(girv[t])
    /\ gout' = [gout EXCEPT ![t] = @ \o EpilogueLines(gret[t])]
    /\ gpc' = [gpc EXCEPT ![t] = "done"]
    /\ UNCHANGED <<n, girv, gidx, gret, gmark, labels>>
    /\ UNCHANGED pvars

GenNext ==
    \E t \in Threads :
        \/ GenLabelRead(t)
        \/ GenLabelIncr(t)
        \/ Prologue(t)
        \/ GenStep(t)
        \/ Epilogue(t)

(***************************************************************************)
(* Claims about gen_x86 and gen_label (checked under GenSpec).             *)
(***************************************************************************)
Count(s, x) == Cardinality({ i \in DOMAIN s : s[i] = x })

CountOp(s, m) == Cardinality({ i \in DOMAIN s : s[i][1] = m })

Returns(irv) == Cardinality({ i \in DOMAIN irv : irv[i].op = "Return" })

Last(s, k) == SubSeq(s, Len(s) - k + 1, Len(s))

\* C1: every invocation that runs to completion printed the prologue first
\* and exactly once, ends with the one definition of its return label
\* followed by the epilogue with exactly one `pop rbp` and one `ret`, and
\* printed one `jmp` per Return instruction, each to that label; no jmp of
\* an unfinished invocation targets another label either.
C1_OnePrologueOneEpilogue ==
    \A t \in Threads :
        /\ \A i \in DOMAIN gout[t] :
              gout[t][i][1] = "jmp" => gout[t][i] = Line("jmp", gret[t], NoOperand)
        /\ gpc[t] = "done" =>
              /\ Len(gout[t]) >= 7
              /\ SubSeq(gout[t], 1, 2) = PrologueLines
              /\ Count(gout[t], PrologueLines[1]) = 1
              /\ Count(gout[t], PrologueLines[2]) = 1
              /\ Last(gout[t], 5) = EpilogueLines(gret[t])
              /\ CountOp(gout[t], "label") = 1
              /\ CountOp(gout[t], "pop") = 1
              /\ CountOp(gout[t], "ret") = 1
              /\ CountOp(gout[t], "jmp") = Returns(girv[t])

\* An invocation with two Return instructions has run to completion.
C1_Witness ==
    \E t \in Threads : gpc[t] = "done" /\ Returns(girv[t]) = 2

\* C2: no two gen_label calls return the same label.
C2_LabelsUnique ==
    \A i, j \in DOMAIN labels : i # j => labels[i] # labels[j]

\* The first instruction satisfying P, 0 if there is none.
FirstIdx(irv, P(_)) ==
    IF \E i \in DOMAIN irv : P(irv[i])
      THEN CHOOSE i \in DOMAIN irv : P(irv[i]) /\ \A j \in 1..(i - 1) : ~P(irv[j])
      ELSE 0

IsBig(o) == IsSome(o) /\ Unwrap(o) >= Len(REGS)

\* The instruction carries a register id at or beyond the table's length.
Carries(ir) == IsBig(ir.lhs) \/ (ir.op \in RegRhs /\ IsBig(ir.rhs))

\* ... and its match arm uses that id as an index into REGS.
Indexes(ir) == ir.op \notin {"Nop", "Kill"} /\ Carries(ir)

NoEpilogue(out) == CountOp(out, "label") = 0 /\ CountOp(out, "pop") = 0 /\ CountOp(out, "ret") = 0

SinceMark(t) == SubSeq(gout[t], gmark[t] + 1, Len(gout[t]))

\* C5 as stated: gen_x86 never gets past the first instruction, of any
\* opcode, that carries an out-of-range register id; it prints no line for
\* it and no epilogue.
C5_AnyOpcodeFailsNoLine ==
    \A t \in Threads :
        LET k == FirstIdx(girv[t], Carries) IN
        k # 0 => /\ gidx[t] <= k
                 /\ gpc[t] # "done"
                 /\ NoEpilogue(gout[t])
                 /\ gidx[t] = k => SinceMark(t) = << >>

\* The lines of the failing instruction that precede its first out-of-range
\* lookup.
LinesBeforeLookup(ir) ==
    IF ~IsSome(ir.lhs) THEN << >>
    ELSE IF ir.op = "Mul" /\ IsSome(ir.rhs) /\ ~IsBig(ir.rhs)
      THEN << Line("mov", Phys("rax"), Reg(Unwrap(ir.rhs))) >>
    ELSE IF ir.op = "Div" /\ ~IsBig(ir.lhs)
      THEN << Line("mov", Phys("rax"), Reg(Unwrap(ir.lhs))),
              Line("cqo", NoOperand, NoOperand) >>
    ELSE IF ir.op = "Alloca" /\ IsSome(ir.rhs)
      THEN << Line("sub", Phys("rsp"), Lit(Unwrap(ir.rhs))) >>
    ELSE << >>

\* C5 amended: gen_x86 never gets past the first instruction other than
\* Nop/Kill that uses an out-of-range register id as a register operand: it
\* never completes, prints no epilogue and no line of a later instruction;
\* when it fails at that instruction it has printed of it only the lines
\* that precede the out-of-range lookup.
C5_IndexingOpcodeFails ==
    \A t \in Threads :
        LET k == FirstIdx(girv[t], Indexes) IN
        k # 0 => /\ gidx[t] <= k
                 /\ gpc[t] # "done"
                 /\ NoEpilogue(gout[t])
                 /\ (gidx[t] = k /\ gpc[t] = "panic") =>
                        SinceMark(t) = LinesBeforeLookup(girv[t][k])
                 /\ (gidx[t] = k /\ gpc[t] # "panic") => SinceMark(t) = << >>

\* gen_x86 failed at a Mul whose lhs is out of range, after printing the
\* Mul's first line.
C5_Witness ==
    \E t \in Threads :
        /\ gpc[t] = "panic"
        /\ gidx[t] = FirstIdx(girv[t], Indexes)
        /\ girv[t][gidx[t]].op = "Mul"
        /\ Len(SinceMark(t)) = 1

Strip(irv) == SelectSeq(irv, LAMBDA ir : ir.op \notin {"Nop", "Kill"})

\* gen_x86 on irv with return label ret, from the prologue on.
RECURSIVE Body(_, _)
Body(irv, ret) ==
    IF irv = << >> THEN [lines |-> EpilogueLines(ret), pc |-> "done"]
    ELSE LET e == Exec(irv[1], ret) IN
         IF ~e.ok THEN [lines |-> e.lines, pc |-> "panic"]
         ELSE LET rest == Body(Tail(irv), ret)
              IN  [lines |-> e.lines \o rest.lines, pc |-> rest.pc]

\* C9: a finished invocation's output is the output of the same IR with
\* its Nop and Kill instructions removed.
C9_NopKillRemovable ==
    \A t \in Threads :
        gpc[t] \in {"done", "panic"} =>
            LET b == Body(Strip(girv[t]), gret[t])
            IN  gout[t] = PrologueLines \o b.lines /\ gpc[t] = b.pc



(***************************************************************************)
(*                              parse.rs                                   *)
(***************************************************************************)

\* A Token: its TokenType (the variant in ty, the variant's payload in val
\* and len) and its raw source text (input).
Tok(ty, input) == [ty |-> ty, val |-> "", len |-> 0, input |-> input]

NumTok(v, input) == [ty |-> "Num", val |-> v, len |-> 0, input |-> input]

IdentTok(name) == [ty |-> "Ident", val |-> name, len |-> 0, input |-> name]

StrTok(str, l, input) == [ty |-> "Str", val |-> str, len |-> l, input |-> input]

\* Type / Ctype (parse.rs:63-92)
IntTy == <<"Int">>

CharTy == <<"Char">>

Ptr(ty) == <<"Ptr", ty>>

Ary(ty, l) == <<"Ary", ty, l>>

\* Node::new (parse.rs:101-106): the type defaults to Int.
New(op) == [op |-> op, ty |-> IntTy]

\* Node::new_binop (parse.rs:112-114)
NewBinop(ty, lhs, rhs) == New(<<"BinOp", ty, lhs, rhs>>)

\* new_expr! (parse.rs:117-121)
NewExpr(kind, expr) == New(<<kind, expr>>)

NullNode == New(<<"Null">>)

\* get_type (parse.rs:27-33)
GetType(t) ==
    IF t.ty = "Int" THEN Some(IntTy)
    ELSE IF t.ty = "Char" THEN Some(CharTy)
    ELSE None

(***************************************************************************)
(* What a panic message names: the expected token kind or construct, the   *)
(* actual token's kind, the actual token's raw text.                       *)
(***************************************************************************)
NoReport == [site |-> "", expected |-> None, kind |-> None, text |-> None]

\* parse.rs:7-13: "{:?} ({:?}) expected, but got {:?} ({:?})" of ty, ty,
\* t.ty, t.ty: the kinds in their Debug form, never t.input.
ExpectReport(ty, t) ==
    [site |-> "expect", expected |-> Some(ty), kind |-> Some(t.ty), text |-> None]

\* "<what> expected, but got {}" of t.input (parse.rs:166, 316, 361, 374, 478)
InputReport(what, t) ==
    [site |-> what, expected |-> Some(what), kind |-> None, text |-> Some(t.input)]

\* panic!("number expected") (parse.rs:328)
BareReport(what) ==
    [site |-> what, expected |-> Some(what), kind |-> None, text |-> None]

\* tokens[*pos] with *pos == tokens.len(): "index out of bounds: the len is
\* .. but the index is ..".
IndexReport == [site |-> "index", expected |-> None, kind |-> None, text |-> None]

(***************************************************************************)
(* The machine: a stack of frames, one per active call.                    *)
(***************************************************************************)
Nil == New(<<"Nil">>)

Frame(fn, p) ==
    [fn |-> fn, pc |-> "start", from |-> p, t |-> -1, lhs |-> Nil, acc |-> << >>,
     name |-> "", ty |-> << >>, flag |-> FALSE, op |-> "", mark |-> -1]

NoRet == [fn |-> "", from |-> 0, val |-> Nil]

Top == stack[Len(stack)]

Below == SubSeq(stack, 1, Len(stack) - 1)

At(fn, pc) == status = "run" /\ stack # << >> /\ Top.fn = fn /\ Top.pc = pc

AtEnd == pos = Len(tokens)

\* tokens[*pos]
Cur == tokens[pos + 1]

\* The kind of tokens[i]; "" past the end (never a token's kind).
TyAt(i) == IF i + 1 \in DOMAIN tokens THEN tokens[i + 1].ty ELSE ""

\* The cursor moved past two tokens for one consumed.
BumpTwice(p) == p + 2

\* *pos += 1
Bump(p) == p + 1

Fresh(i) == { [idx |-> i, held |-> FALSE] }

Held(i) == { [idx |-> i, held |-> TRUE] }

NoLook == { }

\* The outcome of one step.
Outcome(p, s, r, lk, pr) ==
    [pos |-> p, stack |-> s, returned |-> r, look |-> lk, status |-> "run",
     report |-> NoReport, progress |-> pr]

\* Stay in the function, with its frame replaced by f.
Go(f, p, lk) == Outcome(p, Append(Below, f), NoRet, lk, TRUE)

\* The same at a loop head: it records whether the loop consumed a token
\* since it was last at its head.
Loop(f, p, lk) ==
    Outcome(p, Append(Below, [f EXCEPT !.mark = pos]), NoRet, lk, Top.mark < pos)

\* Call g, to continue in frame f when it returns.
CallFn(f, g, p, lk) == Outcome(p, Append(Append(Below, f), g), NoRet, lk, TRUE)

LoopCall(f, g, p, lk) ==
    Outcome(p, Append(Append(Below, [f EXCEPT !.mark = pos]), g), NoRet, lk,
            Top.mark < pos)

\* Return v to the caller.
Return(v, p, lk) ==
    Outcome(p, Below, [fn |-> Top.fn, from |-> Top.from, val |-> v], lk, TRUE)

LoopReturn(v, p, lk) ==
    Outcome(p, Below, [fn |-> Top.fn, from |-> Top.from, val |-> v], lk,
            Top.mark < pos)

\* panic!: the process aborts where it is.
Panic(rep, lk) ==
    [pos |-> pos, stack |-> stack, returned |-> NoRet, look |-> lk, status |-> "abort",
     report |-> rep, progress |-> progress]

Apply(o) ==
    /\ pos' = o.pos
    /\ stack' = o.stack
    /\ returned' = o.returned
    /\ look' = o.look
    /\ status' = o.status
    /\ report' = o.report
    /\ progress' = (progress /\ o.progress)
    /\ UNCHANGED <<tokens, result>>
    /\ UNCHANGED gvars

\* A step that starts by reading tokens[*pos].
Fetch(o) == IF AtEnd THEN Panic(IndexReport, NoLook) ELSE o

\* expect(ty, &tokens[*pos], pos) (parse.rs:5-16), then o.
Expect(ty, o) ==
    IF AtEnd THEN Panic(IndexReport, NoLook)
    ELSE IF Cur.ty # ty THEN Panic(ExpectReport(ty, Cur), Fresh(pos))
    ELSE o

Pc(f, pc) == [f EXCEPT !.pc = pc]

(***************************************************************************)
(* primary (parse.rs:123-168)                                              *)
(***************************************************************************)
\* parse.rs:124-139, 156, 166
Primary124 ==
    /\ At("primary", "start")
    /\ Apply(Fetch(
         LET t == Cur IN
         CASE t.ty = "Num" ->
                Return([op |-> <<"Num", t.val>>, ty |-> IntTy], Bump(pos), Fresh(pos))
           [] t.ty = "Str" ->
                Return([op |-> <<"Str", t.val, t.len>>, ty |-> Ary(CharTy, Len(t.val))],
                       Bump(pos), Fresh(pos))
           [] t.ty = "Ident" ->
                Go([Top EXCEPT !.pc = "L140", !.t = pos, !.name = t.val],
                   Bump(pos), Fresh(pos))
           [] t.ty = "LeftParen" ->
                Go([Top EXCEPT !.pc = "L157", !.t = pos], Bump(pos), Fresh(pos))
           [] OTHER -> Panic(InputReport("number", t), Fresh(pos))))

\* parse.rs:140-142
Primary140 ==
    /\ At("primary", "L140")
    /\ Apply(Fetch(
         IF Cur.ty # "LeftParen"
           THEN Return(New(<<"Ident", Top.name>>), pos, Fresh(pos) \cup Held(Top.t))
           ELSE Go(Pc(Top, "L145"), Bump(pos), Fresh(pos))))

\* parse.rs:144-149
Primary145 ==
    /\ At("primary", "L145")
    /\ Apply(Fetch(
         IF Cur.ty = "RightParen"
           THEN Return(New(<<"Call", Top.name, << >> >>), Bump(pos),
                       Fresh(pos) \cup Held(Top.t))
           ELSE CallFn(Pc(Top, "L150"), Frame("assign", pos), pos, Fresh(pos))))

\* parse.rs:149-152: args.push(<assign>), then the head of the while loop.
Primary150 ==
    /\ At("primary", "L150")
    /\ Apply(Fetch(
         LET f == [Top EXCEPT !.acc = Append(@, returned.val)] IN
         IF Cur.ty = "Colon"
           THEN LoopCall(f, Frame("assign", Bump(pos)), Bump(pos), Fresh(pos))
           ELSE Loop(Pc(f, "L153"), pos, Fresh(pos))))

\* parse.rs:153-154
Primary153 ==
    /\ At("primary", "L153")
    /\ Apply(Expect("RightParen",
         Return(New(<<"Call", Top.name, Top.acc>>), Bump(pos),
                Fresh(pos) \cup Held(Top.t))))

\* parse.rs:157-162
Primary157 ==
    /\ At("primary", "L157")
    /\ Apply(Fetch(
         IF Cur.ty = "LeftBrace"
           THEN CallFn(Pc(Top, "L159"), Frame("compound_stmt", Bump(pos)),
                       Bump(pos), Fresh(pos))
           ELSE CallFn(Pc(Top, "L163"), Frame("assign", pos), pos, Fresh(pos))))

\* parse.rs:159-160
Primary159 ==
    /\ At("primary", "L159")
    /\ Apply(Expect("RightParen",
         Return(New(<<"StmtExpr", returned.val>>), Bump(pos), Fresh(pos))))

\* parse.rs:163-164
Primary163 ==
    /\ At("primary", "L163")
    /\ Apply(Expect("RightParen", Return(returned.val, Bump(pos), Fresh(pos))))

(***************************************************************************)
(* postfix (parse.rs:170-180)                                              *)
(***************************************************************************)
Postfix171 ==
    /\ At("postfix", "start")
    /\ Apply(CallFn(Pc(Top, "L172"), Frame("primary", pos), pos, NoLook))

\* The head of the while loop with lhs as it stands (parse.rs:172-176).
PostfixLoop(lhs) ==
    Fetch(LET f == [Top EXCEPT !.lhs = lhs] IN
          IF Cur.ty = "LeftBracket"
            THEN LoopCall(Pc(f, "L177"), Frame("assign", Bump(pos)), Bump(pos), Fresh(pos))
            ELSE LoopReturn(lhs, pos, Fresh(pos)))

\* parse.rs:171-172: lhs = <primary>
Postfix172 ==
    /\ At("postfix", "L172")
    /\ Apply(PostfixLoop(returned.val))

\* parse.rs:173-177: lhs = Deref(lhs + <assign>); expect(RightBracket)
Postfix177 ==
    /\ At("postfix", "L177")
    /\ Apply(Expect("RightBracket",
         Go([Top EXCEPT !.pc = "L178",
                        !.lhs = NewExpr("Deref", NewBinop("Plus", Top.lhs, returned.val))],
            Bump(pos), Fresh(pos))))

\* parse.rs:172, on the loop's way back
Postfix178 ==
    /\ At("postfix", "L178")
    /\ Apply(PostfixLoop(Top.lhs))

(***************************************************************************)
(* unary (parse.rs:182-196)                                                *)
(***************************************************************************)
\* parse.rs:183-195: the four consume calls read the same token.
Unary183 ==
    /\ At("unary", "start")
    /\ Apply(Fetch(
         CASE Cur.ty = "Mul" ->
                CallFn([Top EXCEPT !.pc = "L184", !.op = "Deref"],
                       Frame("mul", Bump(pos)), Bump(pos), Fresh(pos))
           [] Cur.ty = "And" ->
                CallFn([Top EXCEPT !.pc = "L184", !.op = "Addr"],
                       Frame("mul", Bump(pos)), Bump(pos), Fresh(pos))
           [] Cur.ty = "Sizeof" ->
                CallFn([Top EXCEPT !.pc = "L184", !.op = "Sizeof"],
                       Frame("unary", Bump(pos)), Bump(pos), Fresh(pos))
           [] Cur.ty = "Alignof" ->
                CallFn([Top EXCEPT !.pc = "L184", !.op = "Alignof"],
                       Frame("unary", Bump(pos)), Bump(pos), Fresh(pos))
           [] OTHER ->
                CallFn(Pc(Top, "L195"), Frame("postfix", pos), pos, Fresh(pos))))

\* parse.rs:184, 187, 190, 193
Unary184 ==
    /\ At("unary", "L184")
    /\ Apply(Return(NewExpr(Top.op, returned.val), pos, NoLook))

\* parse.rs:195
Unary195 ==
    /\ At("unary", "L195")
    /\ Apply(Return(returned.val, pos, NoLook))

(***************************************************************************)
(* mul (parse.rs:198-213), add (parse.rs:215-231)                          *)
(***************************************************************************)
Mul199 ==
    /\ At("mul", "start")
    /\ Apply(CallFn(Pc(Top, "L201"), Frame("unary", pos), pos, NoLook))

\* The loop of mul taking `+` for one of its own operators.
MulLoopAlsoPlus(lhs, lk) ==
    IF AtEnd THEN LoopReturn(lhs, pos, lk)
    ELSE IF Cur.ty \notin {"Mul", "Div", "Plus"} THEN LoopReturn(lhs, pos, lk \cup Fresh(pos))
    ELSE LoopCall([Top EXCEPT !.pc = "L211", !.lhs = lhs, !.t = pos, !.op = Cur.ty],
                  Frame("unary", Bump(pos)), Bump(pos), lk \cup Fresh(pos))

\* parse.rs:201-211: the loop with lhs as it stands; t.ty.clone() is taken
\* before unary is called.
MulLoop(lhs, lk) ==
    IF AtEnd THEN LoopReturn(lhs, pos, lk)
    ELSE IF Cur.ty \notin {"Mul", "Div"} THEN LoopReturn(lhs, pos, lk \cup Fresh(pos))
    ELSE LoopCall([Top EXCEPT !.pc = "L211", !.lhs = lhs, !.t = pos, !.op = Cur.ty],
                  Frame("unary", Bump(pos)), Bump(pos), lk \cup Fresh(pos))

\* parse.rs:199: lhs = <unary>
Mul201 ==
    /\ At("mul", "L201")
    /\ Apply(MulLoop(returned.val, NoLook))

\* parse.rs:211: lhs = new_binop(<t.ty>, lhs, <unary>)
Mul211 ==
    /\ At("mul", "L211")
    /\ Apply(MulLoop(NewBinop(Top.op, Top.lhs, returned.val), NoLook))

Add216 ==
    /\ At("add", "start")
    /\ Apply(CallFn(Pc(Top, "L218"), Frame("mul", pos), pos, NoLook))

\* parse.rs:218-228
AddLoop(lhs, lk) ==
    IF AtEnd THEN LoopReturn(lhs, pos, lk)
    ELSE IF Cur.ty \notin {"Plus", "Minus"} THEN LoopReturn(lhs, pos, lk \cup Fresh(pos))
    ELSE LoopCall([Top EXCEPT !.pc = "L229", !.lhs = lhs, !.t = pos],
                  Frame("mul", Bump(pos)), Bump(pos), lk \cup Fresh(pos))

\* parse.rs:216: lhs = <mul>
Add218 ==
    /\ At("add", "L218")
    /\ Apply(AddLoop(returned.val, NoLook))

\* parse.rs:228-229: rhs = <mul>; lhs = new_binop(t.ty.clone(), lhs, rhs):
\* t is the operator token, consumed before rhs was parsed.
Add229 ==
    /\ At("add", "L229")
    /\ Apply(AddLoop(NewBinop(TyAt(Top.t), Top.lhs, returned.val), Held(Top.t)))

(***************************************************************************)
(* rel (parse.rs:233-251)                                                  *)
(***************************************************************************)
Rel234 ==
    /\ At("rel", "start")
    /\ Apply(CallFn(Pc(Top, "L235"), Frame("add", pos), pos, NoLook))

\* parse.rs:235-249
RelLoop(lhs) ==
    Fetch(LET f == [Top EXCEPT !.lhs = lhs, !.t = pos] IN
          CASE Cur.ty = "LeftAngleBracket" ->
                 LoopCall(Pc(f, "L239"), Frame("add", Bump(pos)), Bump(pos), Fresh(pos))
            [] Cur.ty = "RightAngleBracket" ->
                 LoopCall(Pc(f, "L245"), Frame("add", Bump(pos)), Bump(pos), Fresh(pos))
            [] OTHER -> LoopReturn(lhs, pos, Fresh(pos)))

Rel235 ==
    /\ At("rel", "L235")
    /\ Apply(RelLoop(returned.val))

\* parse.rs:239: lhs = lhs < <add>
Rel239 ==
    /\ At("rel", "L239")
    /\ Apply(RelLoop(NewBinop("LeftAngleBracket", Top.lhs, returned.val)))

\* parse.rs:245: lhs = <add> < lhs
Rel245 ==
    /\ At("rel", "L245")
    /\ Apply(RelLoop(NewBinop("LeftAngleBracket", returned.val, Top.lhs)))

(***************************************************************************)
(* equality (parse.rs:253-267)                                             *)
(***************************************************************************)
Equality254 ==
    /\ At("equality", "start")
    /\ Apply(CallFn(Pc(Top, "L256"), Frame("rel", pos), pos, NoLook))

\* parse.rs:254-265: lhs = <rel>; t = &tokens[*pos]; the `==` test, and the
\* `!=` test when the `==` test failed.
Equality256 ==
    /\ At("equality", "L256")
    /\ Apply(Fetch(
         LET f == [Top EXCEPT !.lhs = returned.val, !.t = pos] IN
         CASE Cur.ty = "EQ" ->
                CallFn(Pc(f, "L259"), Frame("rel", Bump(pos)), Bump(pos), Fresh(pos))
           [] Cur.ty = "NE" ->
                CallFn(Pc(f, "L263"), Frame("rel", Bump(pos)), Bump(pos), Fresh(pos))
           [] OTHER -> Return(returned.val, pos, Fresh(pos))))

\* The `!=` test reading tokens[*pos] again, after the `==` branch.
NeTestRefetched(f) == pos

\* parse.rs:261: the token `t.ty == TokenType::NE` tests after the `==`
\* branch ran: t, bound at line 256 before `==` was consumed.
NeTested(f) == f.t

\* parse.rs:259-265: lhs = EQ(lhs, <rel>); then the `!=` test on t.
Equality259 ==
    /\ At("equality", "L259")
    /\ Apply(LET lhs == NewBinop("EQ", Top.lhs, returned.val)
                 i == NeTested(Top)
             IN  IF TyAt(i) = "NE"
                   THEN CallFn([Top EXCEPT !.pc = "L263", !.lhs = lhs],
                               Frame("rel", Bump(pos)), Bump(pos), Held(i))
                   ELSE Return(lhs, pos, Held(i)))

\* parse.rs:263-265
Equality263 ==
    /\ At("equality", "L263")
    /\ Apply(Return(NewBinop("NE", Top.lhs, returned.val), pos, NoLook))

(***************************************************************************)
(* logand (parse.rs:270-282), logor (parse.rs:284-296)                     *)
(***************************************************************************)
Logand271 ==
    /\ At("logand", "start")
    /\ Apply(CallFn(Pc(Top, "L272"), Frame("equality", pos), pos, NoLook))

\* parse.rs:272-276
LogandLoop(lhs) ==
    Fetch(IF Cur.ty # "Logand"
            THEN LoopReturn(lhs, pos, Fresh(pos))
            ELSE LoopCall([Top EXCEPT !.pc = "L277", !.lhs = lhs],
                          Frame("equality", Bump(pos)), Bump(pos), Fresh(pos)))

Logand272 ==
    /\ At("logand", "L272")
    /\ Apply(LogandLoop(returned.val))

\* parse.rs:277-280
Logand277 ==
    /\ At("logand", "L277")
    /\ Apply(LogandLoop(New(<<"Logand", Top.lhs, returned.val>>)))

Logor285 ==
    /\ At("logor", "start")
    /\ Apply(CallFn(Pc(Top, "L286"), Frame("logand", pos), pos, NoLook))

\* parse.rs:286-290
LogorLoop(lhs) ==
    Fetch(IF Cur.ty # "Logor"
            THEN LoopReturn(lhs, pos, Fresh(pos))
            ELSE LoopCall([Top EXCEPT !.pc = "L291", !.lhs = lhs],
                          Frame("logand", Bump(pos)), Bump(pos), Fresh(pos)))

Logor286 ==
    /\ At("logor", "L286")
    /\ Apply(LogorLoop(returned.val))

\* parse.rs:291-294
Logor291 ==
    /\ At("logor", "L291")
    /\ Apply(LogorLoop(New(<<"Logor", Top.lhs, returned.val>>)))

(***************************************************************************)
(* assign (parse.rs:298-304)                                               *)
(***************************************************************************)
Assign299 ==
    /\ At("assign", "start")
    /\ Apply(CallFn(Pc(Top, "L300"), Frame("logor", pos), pos, NoLook))

\* parse.rs:301: the function that parses the right-hand side.
AssignRhs == "logor"

\* parse.rs:300-303
Assign300 ==
    /\ At("assign", "L300")
    /\ Apply(Fetch(
         IF Cur.ty = "Equal"
           THEN CallFn([Top EXCEPT !.pc = "L301", !.lhs = returned.val],
                       Frame(AssignRhs, Bump(pos)), Bump(pos), Fresh(pos))
           ELSE Return(returned.val, pos, Fresh(pos))))

\* parse.rs:301
Assign301 ==
    /\ At("assign", "L301")
    /\ Apply(Return(NewBinop("Equal", Top.lhs, returned.val), pos, NoLook))

(***************************************************************************)
(* ctype (parse.rs:306-318), read_array (parse.rs:320-335)                 *)
(***************************************************************************)
\* parse.rs:307-309, 316
Ctype307 ==
    /\ At("ctype", "start")
    /\ Apply(Fetch(
         IF IsSome(GetType(Cur))
           THEN Go([Top EXCEPT !.pc = "L311", !.ty = Unwrap(GetType(Cur))],
                   Bump(pos), Fresh(pos))
           ELSE Panic(InputReport("typename", Cur), Fresh(pos))))

\* The loop of ctype testing `*` without consuming it.
Ctype311Stuck ==
    /\ At("ctype", "L311")
    /\ Apply(Fetch(
         IF Cur.ty = "Mul"
           THEN Loop([Top EXCEPT !.ty = Ptr(@)], pos, Fresh(pos))
           ELSE LoopReturn(Top.ty, pos, Fresh(pos))))

\* parse.rs:311-314
Ctype311 ==
    /\ At("ctype", "L311")
    /\ Apply(Fetch(
         IF Cur.ty = "Mul"
           THEN Loop([Top EXCEPT !.ty = Ptr(@)], Bump(pos), Fresh(pos))
           ELSE LoopReturn(Top.ty, pos, Fresh(pos))))

\* parse.rs:331-334: for val in v { ty = Ary(ty, val) }
RECURSIVE WrapAry(_, _)
WrapAry(ty, v) ==
    IF v = << >> THEN ty ELSE WrapAry(Ary(ty, v[1]), Tail(v))

\* parse.rs:322-323, 331-334; the frame's ty is the parameter ty.
ReadArray322 ==
    /\ At("read_array", "start")
    /\ Apply(Fetch(
         IF Cur.ty = "LeftBracket"
           THEN LoopCall(Pc(Top, "L324"), Frame("primary", Bump(pos)), Bump(pos),
                         Fresh(pos))
           ELSE LoopReturn(WrapAry(Top.ty, Top.acc), pos, Fresh(pos))))

\* parse.rs:324-329
ReadArray324 ==
    /\ At("read_array", "L324")
    /\ Apply(IF returned.val.op[1] = "Num"
               THEN Expect("RightBracket",
                      Go([Top EXCEPT !.pc = "start", !.acc = Append(@, returned.val.op[2])],
                         Bump(pos), Fresh(pos)))
               ELSE Panic(BareReport("number"), NoLook))

(***************************************************************************)
(* decl (parse.rs:337-363), param (parse.rs:365-376),                      *)
(* expr_stmt (parse.rs:378-383)                                            *)
(***************************************************************************)
\* Vardef(name, init, Scope::Local(0)) with its type.
LocalVardef(name, init, ty) ==
    [op |-> <<"Vardef", name, init, <<"Local", 0>> >>, ty |-> ty]

Decl339 ==
    /\ At("decl", "start")
    /\ Apply(CallFn(Pc(Top, "L341"), Frame("ctype", pos), pos, NoLook))

\* parse.rs:339-348, 361
Decl341 ==
    /\ At("decl", "L341")
    /\ Apply(Fetch(
         IF Cur.ty = "Ident"
           THEN CallFn([Top EXCEPT !.pc = "L351", !.t = pos, !.name = Cur.val],
                       [Frame("read_array", Bump(pos)) EXCEPT !.ty = returned.val],
                       Bump(pos), Fresh(pos))
           ELSE Panic(InputReport("variable name", Cur), Fresh(pos))))

\* parse.rs:348-359 without an initializer: consume(Equal) fails and
\* expect(Semicolon) reads the same token.
Decl351 ==
    /\ At("decl", "L351")
    /\ Apply(Fetch(
         IF Cur.ty = "Equal"
           THEN CallFn([Top EXCEPT !.pc = "L356", !.ty = returned.val],
                       Frame("assign", Bump(pos)), Bump(pos), Fresh(pos))
           ELSE Expect("Semicolon",
                  Return(LocalVardef(Top.name, None, returned.val), Bump(pos),
                         Fresh(pos) \cup Held(Top.t)))))

\* parse.rs:352-359 with an initializer
Decl356 ==
    /\ At("decl", "L356")
    /\ Apply(Expect("Semicolon",
         Return(LocalVardef(Top.name, Some(returned.val), Top.ty), Bump(pos),
                Fresh(pos) \cup Held(Top.t))))

Param366 ==
    /\ At("param", "start")
    /\ Apply(CallFn(Pc(Top, "L367"), Frame("ctype", pos), pos, NoLook))

\* parse.rs:367-375
Param367 ==
    /\ At("param", "L367")
    /\ Apply(Fetch(
         IF Cur.ty = "Ident"
           THEN Return(LocalVardef(Cur.val, None, returned.val), Bump(pos), Fresh(pos))
           ELSE Panic(InputReport("parameter name", Cur), Fresh(pos))))

ExprStmt379 ==
    /\ At("expr_stmt", "start")
    /\ Apply(CallFn(Pc(Top, "L381"), Frame("assign", pos), pos, NoLook))

\* parse.rs:380-382
ExprStmt381 ==
    /\ At("expr_stmt", "L381")
    /\ Apply(Expect("Semicolon",
         Return(NewExpr("ExprStmt", returned.val), Bump(pos), Fresh(pos))))

(***************************************************************************)
(* stmt (parse.rs:385-459)                                                 *)
(***************************************************************************)
\* parse.rs:386-387, 390, 401, 415, 425-426, 435-436, 441, 449-450, 453
Stmt386 ==
    /\ At("stmt", "start")
    /\ Apply(Fetch(
         CASE Cur.ty \in {"Int", "Char"} ->
                CallFn(Pc(Top, "L387"), Frame("decl", pos), pos, Fresh(pos))
           [] Cur.ty = "If" -> Go(Pc(Top, "L391"), Bump(pos), Fresh(pos))
           [] Cur.ty = "For" -> Go(Pc(Top, "L402"), Bump(pos), Fresh(pos))
           [] Cur.ty = "While" -> Go(Pc(Top, "L416"), Bump(pos), Fresh(pos))
           [] Cur.ty = "Do" ->
                CallFn(Pc(Top, "L427"), Frame("stmt", Bump(pos)), Bump(pos), Fresh(pos))
           [] Cur.ty = "Return" ->
                CallFn(Pc(Top, "L437"), Frame("assign", Bump(pos)), Bump(pos), Fresh(pos))
           [] Cur.ty = "LeftBrace" -> Go(Pc(Top, "L443"), Bump(pos), Fresh(pos))
           [] Cur.ty = "Semicolon" -> Return(NullNode, Bump(pos), Fresh(pos))
           [] OTHER ->
                CallFn(Pc(Top, "L455"), Frame("assign", pos), pos, Fresh(pos))))

\* parse.rs:387: return decl(tokens, pos)
Stmt387 ==
    /\ At("stmt", "L387")
    /\ Apply(Return(returned.val, pos, NoLook))

\* parse.rs:391-392
Stmt391 ==
    /\ At("stmt", "L391")
    /\ Apply(Expect("LeftParen",
         CallFn(Pc(Top, "L393"), Frame("assign", Bump(pos)), Bump(pos), Fresh(pos))))

\* parse.rs:392-394: cond = <assign>; expect(RightParen); then = stmt(..)
Stmt393 ==
    /\ At("stmt", "L393")
    /\ Apply(Expect("RightParen",
         CallFn([Top EXCEPT !.pc = "L395", !.acc = <<returned.val>>],
                Frame("stmt", Bump(pos)), Bump(pos), Fresh(pos))))

\* parse.rs:394-398
Stmt395 ==
    /\ At("stmt", "L395")
    /\ Apply(Fetch(
         IF Cur.ty = "Else"
           THEN CallFn([Top EXCEPT !.pc = "L396", !.acc = Append(@, returned.val)],
                       Frame("stmt", Bump(pos)), Bump(pos), Fresh(pos))
           ELSE Return(New(<<"If", Top.acc[1], returned.val, None>>), pos, Fresh(pos))))

\* parse.rs:396-398
Stmt396 ==
    /\ At("stmt", "L396")
    /\ Apply(Return(New(<<"If", Top.acc[1], Top.acc[2], Some(returned.val)>>), pos, NoLook))

\* parse.rs:402
Stmt402 ==
    /\ At("stmt", "L402")
    /\ Apply(Expect("LeftParen", Go(Pc(Top, "L403"), Bump(pos), Fresh(pos))))

\* parse.rs:403-406
Stmt403 ==
    /\ At("stmt", "L403")
    /\ Apply(Fetch(
         IF IsSome(GetType(Cur))
           THEN CallFn(Pc(Top, "L407"), Frame("decl", pos), pos, Fresh(pos))
           ELSE CallFn(Pc(Top, "L407"), Frame("expr_stmt", pos), pos, Fresh(pos))))

\* parse.rs:403-407: init = <decl or expr_stmt>; cond = assign(..)
Stmt407 ==
    /\ At("stmt", "L407")
    /\ Apply(CallFn([Top EXCEPT !.pc = "L408", !.acc = <<returned.val>>],
                    Frame("assign", pos), pos, NoLook))

\* parse.rs:407-409
Stmt408 ==
    /\ At("stmt", "L408")
    /\ Apply(Expect("Semicolon",
         CallFn([Top EXCEPT !.pc = "L410", !.acc = Append(@, returned.val)],
                Frame("assign", Bump(pos)), Bump(pos), Fresh(pos))))

\* parse.rs:409-411
Stmt410 ==
    /\ At("stmt", "L410")
    /\ Apply(Expect("RightParen",
         CallFn([Top EXCEPT !.pc = "L412",
                            !.acc = Append(@, NewExpr("ExprStmt", returned.val))],
                Frame("stmt", Bump(pos)), Bump(pos), Fresh(pos))))

\* parse.rs:411-412
Stmt412 ==
    /\ At("stmt", "L412")
    /\ Apply(Return(New(<<"For", Top.acc[1], Top.acc[2], Top.acc[3], returned.val>>),
                    pos, NoLook))

\* parse.rs:416-419
Stmt416 ==
    /\ At("stmt", "L416")
    /\ Apply(Expect("LeftParen",
         CallFn(Pc(Top, "L420"), Frame("assign", Bump(pos)), Bump(pos), Fresh(pos))))

\* parse.rs:419-421
Stmt420 ==
    /\ At("stmt", "L420")
    /\ Apply(Expect("RightParen",
         CallFn([Top EXCEPT !.pc = "L422", !.acc = <<returned.val>>],
                Frame("stmt", Bump(pos)), Bump(pos), Fresh(pos))))

\* parse.rs:421-422
Stmt422 ==
    /\ At("stmt", "L422")
    /\ Apply(Return(New(<<"For", NullNode, Top.acc[1], NullNode, returned.val>>),
                    pos, NoLook))

\* parse.rs:426-427
Stmt427 ==
    /\ At("stmt", "L427")
    /\ Apply(Expect("While",
         Go([Top EXCEPT !.pc = "L428", !.acc = <<returned.val>>], Bump(pos), Fresh(pos))))

\* parse.rs:428-429
Stmt428 ==
    /\ At("stmt", "L428")
    /\ Apply(Expect("LeftParen",
         CallFn(Pc(Top, "L430"), Frame("assign", Bump(pos)), Bump(pos), Fresh(pos))))

\* parse.rs:429-430
Stmt430 ==
    /\ At("stmt", "L430")
    /\ Apply(Expect("RightParen",
         Go([Top EXCEPT !.pc = "L431", !.acc = Append(@, returned.val)],
            Bump(pos), Fresh(pos))))

\* parse.rs:431-432
Stmt431 ==
    /\ At("stmt", "L431")
    /\ Apply(Expect("Semicolon",
         Return(New(<<"DoWhile", Top.acc[1], Top.acc[2]>>), Bump(pos), Fresh(pos))))

\* parse.rs:436-438
Stmt437 ==
    /\ At("stmt", "L437")
    /\ Apply(Expect("Semicolon",
         Return(NewExpr("Return", returned.val), Bump(pos), Fresh(pos))))

\* while !consume(RightBrace) { stmts.push(stmt(..)) } with stmts as it
\* stands (parse.rs:443-446, 464-467).
BlockLoop(stmts, again) ==
    Fetch(IF Cur.ty = "RightBrace"
            THEN LoopReturn(New(<<"CompStmt", stmts>>), Bump(pos), Fresh(pos))
            ELSE LoopCall([Top EXCEPT !.pc = again, !.acc = stmts],
                          Frame("stmt", pos), pos, Fresh(pos)))

\* parse.rs:442-443
Stmt443 ==
    /\ At("stmt", "L443")
    /\ Apply(BlockLoop(<< >>, "L444"))

\* parse.rs:444, and the loop's test again
Stmt444 ==
    /\ At("stmt", "L444")
    /\ Apply(BlockLoop(Append(Top.acc, returned.val), "L444"))

\* parse.rs:453-456
Stmt455 ==
    /\ At("stmt", "L455")
    /\ Apply(Expect("Semicolon",
         Return(New(<<"ExprStmt", returned.val>>), Bump(pos), Fresh(pos))))

(***************************************************************************)
(* compound_stmt (parse.rs:461-468)                                        *)
(***************************************************************************)
CompoundStmt464 ==
    /\ At("compound_stmt", "start")
    /\ Apply(BlockLoop(<< >>, "L465"))

CompoundStmt465 ==
    /\ At("compound_stmt", "L465")
    /\ Apply(BlockLoop(Append(Top.acc, returned.val), "L465"))

(***************************************************************************)
(* toplevel (parse.rs:470-517)                                             *)
(***************************************************************************)
\* Vardef(name, None, Scope::Global(String::new(), <size>, is_extern)); the
\* size is util::size_of's and is left out.
GlobalVardef(name, ty, is_extern) ==
    [op |-> <<"Vardef", name, None, <<"Global", is_extern>> >>, ty |-> ty]

\* parse.rs:471-472
Toplevel471 ==
    /\ At("toplevel", "start")
    /\ Apply(Fetch(
         IF Cur.ty = "Extern"
           THEN CallFn([Top EXCEPT !.pc = "L473", !.flag = TRUE],
                       Frame("ctype", Bump(pos)), Bump(pos), Fresh(pos))
           ELSE CallFn(Pc(Top, "L473"), Frame("ctype", pos), pos, Fresh(pos))))

\* parse.rs:472-480
Toplevel473 ==
    /\ At("toplevel", "L473")
    /\ Apply(Fetch(
         IF Cur.ty = "Ident"
           THEN Go([Top EXCEPT !.pc = "L483", !.ty = returned.val, !.name = Cur.val],
                   Bump(pos), Fresh(pos))
           ELSE Panic(InputReport("function or variable name", Cur), Fresh(pos))))

\* parse.rs:483, 499
Toplevel483 ==
    /\ At("toplevel", "L483")
    /\ Apply(Fetch(
         IF Cur.ty = "LeftParen"
           THEN Go(Pc(Top, "L485"), Bump(pos), Fresh(pos))
           ELSE CallFn(Pc(Top, "L500"), [Frame("read_array", pos) EXCEPT !.ty = Top.ty],
                       pos, Fresh(pos))))

\* parse.rs:484-486
Toplevel485 ==
    /\ At("toplevel", "L485")
    /\ Apply(Fetch(
         IF Cur.ty = "RightParen"
           THEN Go(Pc(Top, "L493"), Bump(pos), Fresh(pos))
           ELSE CallFn(Pc(Top, "L487"), Frame("param", pos), pos, Fresh(pos))))

\* parse.rs:486-489: args.push(<param>), then the head of the while loop
Toplevel487 ==
    /\ At("toplevel", "L487")
    /\ Apply(Fetch(
         LET f == [Top EXCEPT !.acc = Append(@, returned.val)] IN
         IF Cur.ty = "Colon"
           THEN LoopCall(f, Frame("param", Bump(pos)), Bump(pos), Fresh(pos))
           ELSE Loop(Pc(f, "L490"), pos, Fresh(pos))))

\* parse.rs:490
Toplevel490 ==
    /\ At("toplevel", "L490")
    /\ Apply(Expect("RightParen", Go(Pc(Top, "L493"), Bump(pos), Fresh(pos))))

\* parse.rs:493-494
Toplevel493 ==
    /\ At("toplevel", "L493")
    /\ Apply(Expect("LeftBrace",
         CallFn(Pc(Top, "L495"), Frame("compound_stmt", Bump(pos)), Bump(pos),
                Fresh(pos))))

\* parse.rs:495
Toplevel495 ==
    /\ At("toplevel", "L495")
    /\ Apply(Return(New(<<"Func", Top.name, Top.acc, returned.val, 0>>), pos, NoLook))

\* parse.rs:499-516
Toplevel500 ==
    /\ At("toplevel", "L500")
    /\ Apply(Expect("Semicolon",
         Return(GlobalVardef(Top.name, returned.val, Top.flag), Bump(pos), Fresh(pos))))

(***************************************************************************)
(* parse (parse.rs:529-537)                                                *)
(***************************************************************************)
\* while tokens.len() != pos { v.push(toplevel(..)) } with v as it stands
ParseLoop(v) ==
    IF Len(tokens) # pos
      THEN /\ Apply(LoopCall([Top EXCEPT !.pc = "L534", !.acc = v],
                             Frame("toplevel", pos), pos, NoLook))
      ELSE /\ pos' = pos
           /\ stack' = << >>
           /\ returned' = NoRet
           /\ look' = NoLook
           /\ status' = "done"
           /\ report' = NoReport
           /\ result' = Some(v)
           /\ progress' = (progress /\ Top.mark < pos)
           /\ UNCHANGED tokens
           /\ UNCHANGED gvars

\* parse.rs:530-533
Parse533 ==
    /\ At("parse", "start")
    /\ ParseLoop(<< >>)

\* parse.rs:534, and the loop's test again
Parse534 ==
    /\ At("parse", "L534")
    /\ ParseLoop(Append(Top.acc, returned.val))

(***************************************************************************)
(* The token vectors parse is run on.                                      *)
(***************************************************************************)
Keywords ==
    [int |-> "Int", char |-> "Char", if |-> "If", else |-> "Else", for |-> "For",
     while |-> "While", do |-> "Do", return |-> "Return", extern |-> "Extern",
     sizeof |-> "Sizeof", _Alignof |-> "Alignof"]

Punct ==
    << <<"+", "Plus">>, <<"-", "Minus">>, <<"*", "Mul">>, <<"/", "Div">>,
       <<"&", "And">>, <<"<", "LeftAngleBracket">>, <<">", "RightAngleBracket">>,
       <<"==", "EQ">>, <<"!=", "NE">>, <<"&&", "Logand">>, <<"||", "Logor">>,
       <<"=", "Equal">>, <<":", "Colon">>, <<";", "Semicolon">>,
       <<"(", "LeftParen">>, <<")", "RightParen">>, <<"[", "LeftBracket">>,
       <<"]", "RightBracket">>, <<"{", "LeftBrace">>, <<"}", "RightBrace">> >>

Digits == <<"0", "1", "2", "3", "4", "5", "6", "7", "8", "9">>

\* The token of one word of source text.
Word(w) ==
    IF w \in DOMAIN Keywords THEN Tok(Keywords[w], w)
    ELSE IF \E i \in DOMAIN Punct : Punct[i][1] = w
      THEN Tok(Punct[CHOOSE i \in DOMAIN Punct : Punct[i][1] = w][2], w)
    ELSE IF \E i \in DOMAIN Digits : Digits[i] = w
      THEN NumTok((CHOOSE i \in DOMAIN Digits : Digits[i] = w) - 1, w)
    ELSE IF w = "$s" THEN StrTok("s", 2, "\"s\"")
    ELSE IdentTok(w)

Words(ws) == [i \in DOMAIN ws |-> Word(ws[i])]

Programs ==
    { Words(<<"extern", "int", "*", "g", "[", "2", "]", ";", "char", "s", ";">>),
      Words(<<"int", "main", "(", "int", "a", ":", "char", "*", "b", ")", "{",
              "int", "x", "=", "1", ";", "int", "y", "[", "2", "]", "[", "3", "]", ";",
              "return", "x", ";", "}">>),
      Words(<<"int", "f", "(", ")", "{", "if", "(", "x", "<", "1", ")", "return",
              "g", "(", ")", ";", "else", "{", ";", "}", "if", "(", "x", ">", "1", ")",
              "x", "=", "2", ";", "}">>),
      Words(<<"int", "f", "(", ")", "{", "for", "(", "int", "i", "=", "0", ";",
              "i", "<", "3", ";", "i", "=", "i", "+", "1", ")", "x", "=", "x", "*", "2", ";",
              "for", "(", "i", "=", "0", ";", "i", ";", "i", ")", ";", "}">>),
      Words(<<"int", "f", "(", ")", "{", "while", "(", "x", "&&", "y", "||", "z", ")",
              "do", "x", "=", "g", "(", "1", ":", "2", ")", ";", "while", "(", "x", ")", ";",
              "}">>),
      Words(<<"int", "f", "(", ")", "{", "return", "*", "&", "x", "+", "sizeof", "x",
              "-", "_Alignof", "x", "/", "(", "{", "1", ";", "}", ")", ";", "}">>),
      Words(<<"int", "f", "(", ")", "{", "x", "[", "0", "]", "[", "1", "]", "=", "$s", ";",
              "a", "==", "b", ";", "a", "!=", "(", "b", ")", ";", "}">>),
      Words(<<"int", "f", "(", ")", "{", "a", "==", "b", "==", "c", ";", "}">>),
      Words(<<"int", "f", "(", ")", "{", "a", "==", "b", "!=", "c", ";", "}">>),
      Words(<<"int", "f", "(", ")", "{", "a", "!=", "b", "==", "c", ";", "}">>),
      Words(<<"int", "f", "(", ")", "{", "a", "=", "b", "=", "c", ";", "}">>),
      Words(<<"int", "x", "[", "y", "]", ";">>) }

\* Every program, every program cut short, and every program with one
\* token replaced by a `]`.
Prefixes(S) == UNION { { SubSeq(p, 1, k) : k \in 0..Len(p) } : p \in S }

Damaged(S) ==
    UNION { { [p EXCEPT ![i] = Word("]")] : i \in DOMAIN p } : p \in S }

\* Operands joined by up to MaxOps binary operators, as the one statement of
\* a function body.
MaxOps == 3

ChainOps == {"+", "-", "*", "/", "==", "!=", "="}

RECURSIVE Chains(_)
Chains(k) ==
    IF k = 0 THEN { << Word("1") >> }
    ELSE LET shorter == Chains(k - 1) IN
         shorter \cup
         { c \o << Word(o), Word(Digits[k + 2]) >> :
             c \in { d \in shorter : Len(d) = 2 * k - 1 }, o \in ChainOps }

Inputs ==
    Prefixes(Programs) \cup Damaged(Programs) \cup { Words(<<"int", "f", "(", ")", "{">>) \o c \o Words(<<";", "}">>) :
          c \in Chains(MaxOps) }

ParseInit ==
    /\ tokens \in Inputs
    /\ pos = 0
    /\ stack = << Frame("parse", 0) >>
    /\ returned = NoRet
    /\ status = "run"
    /\ report = NoReport
    /\ result = None
    /\ look = NoLook
    /\ progress = TRUE

\* The code generator is not running.
GenIdle ==
    /\ n = 0
    /\ gpc = [t \in Threads |-> "none"]
    /\ girv = [t \in Threads |-> << >>]
    /\ gidx = [t \in Threads |-> 1]
    /\ gret = [t \in Threads |-> Label(0)]
    /\ gout = [t \in Threads |-> << >>]
    /\ gmark = [t \in Threads |-> 0]
    /\ labels = << >>

\* The parser is not running.
ParseIdle ==
    /\ tokens = << >>
    /\ pos = 0
    /\ stack = << >>
    /\ returned = NoRet
    /\ status = "idle"
    /\ report = NoReport
    /\ result = None
    /\ look = NoLook
    /\ progress = TRUE

Init == ParseInit /\ GenIdle

Next ==
    \/ Primary124 \/ Primary140 \/ Primary145 \/ Primary150 \/ Primary153
    \/ Primary157 \/ Primary159 \/ Primary163
    \/ Postfix171 \/ Postfix172 \/ Postfix177 \/ Postfix178
    \/ Unary183 \/ Unary184 \/ Unary195
    \/ Mul199 \/ Mul201 \/ Mul211
    \/ Add216 \/ Add218 \/ Add229
    \/ Rel234 \/ Rel235 \/ Rel239 \/ Rel245
    \/ Equality254 \/ Equality256 \/ Equality259 \/ Equality263
    \/ Logand271 \/ Logand272 \/ Logand277
    \/ Logor285 \/ Logor286 \/ Logor291
    \/ Assign299 \/ Assign300 \/ Assign301
    \/ Ctype307 \/ Ctype311
    \/ ReadArray322 \/ ReadArray324
    \/ Decl339 \/ Decl341 \/ Decl351 \/ Decl356
    \/ Param366 \/ Param367
    \/ ExprStmt379 \/ ExprStmt381
    \/ Stmt386 \/ Stmt387 \/ Stmt391 \/ Stmt393 \/ Stmt395 \/ Stmt396
    \/ Stmt402 \/ Stmt403 \/ Stmt407 \/ Stmt408 \/ Stmt410 \/ Stmt412
    \/ Stmt416 \/ Stmt420 \/ Stmt422
    \/ Stmt427 \/ Stmt428 \/ Stmt430 \/ Stmt431
    \/ Stmt437 \/ Stmt443 \/ Stmt444 \/ Stmt455
    \/ CompoundStmt464 \/ CompoundStmt465
    \/ Toplevel471 \/ Toplevel473 \/ Toplevel483 \/ Toplevel485 \/ Toplevel487
    \/ Toplevel490 \/ Toplevel493 \/ Toplevel495 \/ Toplevel500
    \/ Parse533 \/ Parse534

\* parse on one token vector
Spec == Init /\ [][Next]_vars

\* Where the parser is: the cursor and the position in the function on top
\* of the call stack.
where == <<pos, status, Len(stack), IF stack = << >> THEN "" ELSE Top.pc>>

\* parse runs to its end: the call is synchronous, nothing suspends it.
FairSpec == Spec /\ WF_where(Next)

\* gen_x86 is about to be called; the parser is not running.
GenStart == GenInit /\ ParseIdle

\* gen_x86 called by one thread, or by two at once
GenSpec == GenStart /\ [][GenNext]_vars

(***************************************************************************)
(* Claims about parse (checked under Spec, C10 under FairSpec).            *)
(***************************************************************************)

\* C3: a parse that aborts returns no nodes, and its report names what was
\* expected, the actual token's kind and the actual token's raw text.
C3_ReportNamesKindAndText ==
    status = "abort" =>
        /\ result = None
        /\ IsSome(report.expected)
        /\ IsSome(report.kind)
        /\ IsSome(report.text)

\* The node primary returns for the one-token operand tokens[i].
PrimNode(i) ==
    IF TyAt(i) = "Num" THEN [op |-> <<"Num", tokens[i + 1].val>>, ty |-> IntTy]
    ELSE New(<<"Ident", tokens[i + 1].val>>)

\* tokens[i] is a primary of one token: a number or a bare identifier, and
\* what follows it starts no call and no index.
IsOperand(i) ==
    /\ TyAt(i) \in {"Num", "Ident"}
    /\ TyAt(i + 1) \notin {"", "LeftBracket"}
    /\ TyAt(i) = "Ident" => TyAt(i + 1) # "LeftParen"

\* C4: on `a = b = c` assign consumes all five tokens and returns
\* a = (b = c).
C4_AssignRightAssociative ==
    LET p == returned.from IN
    ( /\ returned.fn = "assign"
      /\ IsOperand(p) /\ TyAt(p + 1) = "Equal"
      /\ IsOperand(p + 2) /\ TyAt(p + 3) = "Equal"
      /\ IsOperand(p + 4) /\ TyAt(p + 5) = "Semicolon" )
    => /\ pos = p + 5
       /\ returned.val =
            NewBinop("Equal", PrimNode(p),
                     NewBinop("Equal", PrimNode(p + 2), PrimNode(p + 4)))

\* C6 as stated: the cursor never decreases, never exceeds the number of
\* tokens, moves one token at a time, and every token a step examines is
\* the token at the cursor.
C6_ExaminesOnlyAtCursor ==
    [][ /\ pos' \in {pos, pos + 1}
        /\ pos' <= Len(tokens)
        /\ \A l \in look' : l.idx = pos ]_vars

\* C6 amended: the cursor never decreases, never exceeds the number of
\* tokens and moves one token at a time, when the token at the cursor was
\* read in that step; every token is read at the cursor, and a token
\* examined later through a reference a function kept is one the cursor has
\* already passed.
C6_FetchesOnlyAtCursor ==
    [][ /\ pos' \in {pos, pos + 1}
        /\ pos' <= Len(tokens)
        /\ pos' = pos + 1 => [idx |-> pos, held |-> FALSE] \in look'
        /\ \A l \in look' : IF l.held THEN l.idx < pos ELSE l.idx = pos ]_vars

\* equality has tested the `==` token it kept against `!=` after the cursor
\* moved past it.
C6_Witness ==
    /\ returned.fn = "equality"
    /\ \E l \in look : l.held /\ l.idx < pos /\ TyAt(l.idx) = "EQ"

ArithOps == {"Plus", "Minus", "Mul", "Div"}

\* The last operand of the chain operand (op operand)* that starts at
\* tokens[i], op among + - * /.
RECURSIVE ChainEnd(_)
ChainEnd(i) ==
    IF IsOperand(i) /\ TyAt(i + 1) \in ArithOps THEN ChainEnd(i + 2) ELSE i

IsChain(i) == IsOperand(ChainEnd(i))

\* The last index in lo..hi whose token is one of ops, -1 if there is none.
LastOf(lo, hi, ops) ==
    LET S == { i \in lo..hi : TyAt(i) \in ops }
    IN  IF S = { } THEN -1 ELSE CHOOSE i \in S : \A j \in S : j <= i

\* The reference parser: a chain splits at its last + or -, a term at its
\* last * or /.
RECURSIVE RefMul(_, _)
RefMul(lo, hi) ==
    LET i == LastOf(lo, hi, {"Mul", "Div"})
    IN  IF i = -1 THEN PrimNode(lo)
        ELSE NewBinop(TyAt(i), RefMul(lo, i - 1), PrimNode(i + 1))

RECURSIVE RefAdd(_, _)
RefAdd(lo, hi) ==
    LET i == LastOf(lo, hi, {"Plus", "Minus"})
    IN  IF i = -1 THEN RefMul(lo, hi)
        ELSE NewBinop(TyAt(i), RefAdd(lo, i - 1), RefMul(i + 1, hi))

\* C7: on one-token primaries joined by + - * /, add consumes the chain and
\* returns the reference parser's tree: * and / bind tighter than + and -,
\* equal precedence groups left to right.
C7_AddMatchesReference ==
    LET p == returned.from IN
    (returned.fn = "add" /\ IsChain(p)) =>
        /\ pos = ChainEnd(p) + 1
        /\ returned.val = RefAdd(p, ChainEnd(p))

\* add has returned Plus(1, Mul(2, 3)) on `1 + 2 * 3`.
C7_Witness ==
    LET p == returned.from IN
    /\ returned.fn = "add" /\ IsChain(p) /\ ChainEnd(p) = p + 4
    /\ TyAt(p + 1) = "Plus" /\ TyAt(p + 3) = "Mul"
    /\ returned.val =
         NewBinop("Plus", PrimNode(p), NewBinop("Mul", PrimNode(p + 2), PrimNode(p + 4)))

Opens == {"LeftParen", "LeftBracket", "LeftBrace"}

Closes == {"RightParen", "RightBracket", "RightBrace"}

\* The `==` and `!=` tokens among tokens[i..hi-1] that lie inside no
\* bracket opened there.
RECURSIVE TopCmp(_, _, _)
TopCmp(i, hi, depth) ==
    IF i >= hi THEN 0
    ELSE IF TyAt(i) \in Opens THEN TopCmp(i + 1, hi, depth + 1)
    ELSE IF TyAt(i) \in Closes THEN TopCmp(i + 1, hi, depth - 1)
    ELSE (IF depth = 0 /\ TyAt(i) \in {"EQ", "NE"} THEN 1 ELSE 0)
         + TopCmp(i + 1, hi, depth)

\* C8: one invocation of equality consumes at most one `==` or `!=` of its
\* own; on `a == b == c` and the mixed forms it returns the first comparison
\* alone and leaves the cursor at the second operator.
C8_EqualityAtMostOne ==
    LET p == returned.from IN
    returned.fn = "equality" =>
        /\ TopCmp(p, pos, 0) <= 1
        /\ ( /\ IsOperand(p) /\ TyAt(p + 1) \in {"EQ", "NE"}
             /\ IsOperand(p + 2) /\ TyAt(p + 3) \in {"EQ", "NE"} )
           => /\ pos = p + 3
              /\ returned.val = NewBinop(TyAt(p + 1), PrimNode(p), PrimNode(p + 2))

\* equality has returned from `a == b != c` with the cursor at `!=`.
C8_Witness ==
    LET p == returned.from IN
    /\ returned.fn = "equality" /\ pos = p + 3
    /\ IsOperand(p) /\ TyAt(p + 1) = "EQ" /\ IsOperand(p + 2) /\ TyAt(p + 3) = "NE"

\* Two active calls of one function started at different cursor positions,
\* the inner one further on.
RecursionConsumes ==
    \A i, j \in DOMAIN stack :
        (i < j /\ stack[i].fn = stack[j].fn) => stack[i].from < stack[j].from

\* C10: parse ends, returning with the cursor at the token count or
\* aborting; no loop comes back to its head, and no function is entered
\* again from itself, without a token having been consumed in between.
C10_ParseTerminates ==
    /\ <>(status \in {"done", "abort"})
    /\ [][progress' /\ RecursionConsumes']_vars
    /\ [][status' = "done" => (pos' = Len(tokens) /\ IsSome(result') /\ stack' = << >>)]_vars

\* parse has returned two top-level nodes.
C10_Witness ==
    /\ status = "done" /\ pos = Len(tokens)
    /\ IsSome(result) /\ Len(Unwrap(result)) = 2

=============================================================================
